---- MODULE Spec2Model ----
(***************************************************************************)
(* A model of the game-cover resolver (GameCoverResolver component and the *)
(* three provider lookups fetchGameCoverFromRAWG / FromTheGamesDB /        *)
(* FromIGDB) of src/components/instructions-card.tsx.                      *)
(*                                                                         *)
(* JavaScript strings are sequences of one-character strings, so that      *)
(* toLowerCase, includes and template concatenation are computed and not   *)
(* assumed.  A string literal that is only ever concatenated (the rest of  *)
(* a URL after its scheme) is kept as one element.                         *)
(***************************************************************************)
EXTENDS Integers, Sequences, FiniteSets, TLC

----------------------------------------------------------------------------
(* Strings                                                                 *)

UpperCaseLetters == <<"A","B","C","D","E","F","G","H","I","J","K","L","M",
                      "N","O","P","Q","R","S","T","U","V","W","X","Y","Z">>

LowerCaseLetters == <<"a","b","c","d","e","f","g","h","i","j","k","l","m",
                      "n","o","p","q","r","s","t","u","v","w","x","y","z">>

\* String.prototype.toLowerCase on one character
toLowerCaseChar(c) ==
    IF \E k \in DOMAIN UpperCaseLetters : UpperCaseLetters[k] = c
    THEN LowerCaseLetters[CHOOSE k \in DOMAIN UpperCaseLetters : UpperCaseLetters[k] = c]
    ELSE c

\* String.prototype.toLowerCase
toLowerCase(s) == [k \in 1..Len(s) |-> toLowerCaseChar(s[k])]

\* String.prototype.includes: sub occurs in s as a contiguous substring
includes(s, sub) ==
    \E k \in 0..(Len(s) - Len(sub)) :
        \A j \in 1..Len(sub) : s[k + j] = sub[j]

\* JavaScript truthiness of a string value: "" and undefined are falsy
Undefined == <<"undefined">>

Truthy(s) == s # <<>> /\ s # Undefined

\* whether the object o has the property k
Has(o, k) == k \in DOMAIN o

----------------------------------------------------------------------------
(* The platform tables                                                     *)
K_microsoft_windows == <<"m","i","c","r","o","s","o","f","t"," ","w","i","n","d","o","w","s">>

K_microsoft_xbox_360 == <<"m","i","c","r","o","s","o","f","t"," ","x","b","o","x"," ","3","6","0">>

K_microsoft_xbox == <<"m","i","c","r","o","s","o","f","t"," ","x","b","o","x">>

K_nintendo_3ds == <<"n","i","n","t","e","n","d","o"," ","3","d","s">>

K_nintendo_64 == <<"n","i","n","t","e","n","d","o"," ","6","4">>

K_nintendo_ds == <<"n","i","n","t","e","n","d","o"," ","d","s">>

K_nintendo_gamecube == <<"n","i","n","t","e","n","d","o"," ","g","a","m","e","c","u","b","e">>

K_nintendo_switch == <<"n","i","n","t","e","n","d","o"," ","s","w","i","t","c","h">>

K_nintendo_wii_u == <<"n","i","n","t","e","n","d","o"," ","w","i","i"," ","u">>

K_nintendo_wii == <<"n","i","n","t","e","n","d","o"," ","w","i","i">>

K_sega_dreamcast == <<"s","e","g","a"," ","d","r","e","a","m","c","a","s","t">>

K_sega_saturn == <<"s","e","g","a"," ","s","a","t","u","r","n">>

K_sony_playstation_2 == <<"s","o","n","y"," ","p","l","a","y","s","t","a","t","i","o","n"," ","2">>

K_sony_playstation_3 == <<"s","o","n","y"," ","p","l","a","y","s","t","a","t","i","o","n"," ","3">>

K_sony_playstation_4 == <<"s","o","n","y"," ","p","l","a","y","s","t","a","t","i","o","n"," ","4">>

K_sony_playstation_5 == <<"s","o","n","y"," ","p","l","a","y","s","t","a","t","i","o","n"," ","5">>

K_sony_playstation_portable == <<"s","o","n","y"," ","p","l","a","y","s","t","a","t","i","o","n"," ","p","o","r","t","a","b","l","e">>

K_sony_playstation_vita == <<"s","o","n","y"," ","p","l","a","y","s","t","a","t","i","o","n"," ","v","i","t","a">>

K_sony_playstation == <<"s","o","n","y"," ","p","l","a","y","s","t","a","t","i","o","n">>

\* Platform mapping for RAWG API
PLATFORM_MAPPING ==
    (K_microsoft_windows :> <<4>>) @@
    (K_microsoft_xbox_360 :> <<14>>) @@
    (K_microsoft_xbox :> <<80>>) @@
    (K_nintendo_3ds :> <<8>>) @@
    (K_nintendo_64 :> <<83>>) @@
    (K_nintendo_ds :> <<9>>) @@
    (K_nintendo_gamecube :> <<11>>) @@
    (K_nintendo_switch :> <<7>>) @@
    (K_nintendo_wii_u :> <<10>>) @@
    (K_nintendo_wii :> <<10>>) @@
    (K_sega_dreamcast :> <<106>>) @@
    (K_sega_saturn :> <<107>>) @@
    (K_sony_playstation_2 :> <<15>>) @@
    (K_sony_playstation_3 :> <<16>>) @@
    (K_sony_playstation_4 :> <<18>>) @@
    (K_sony_playstation_5 :> <<187>>) @@
    (K_sony_playstation_portable :> <<17>>) @@
    (K_sony_playstation_vita :> <<19>>) @@
    (K_sony_playstation :> <<27>>)

\* Platform mapping for TheGamesDB API
TGDB_PLATFORM_MAPPING ==
    (K_microsoft_windows :> <<1>>) @@
    (K_microsoft_xbox_360 :> <<15>>) @@
    (K_microsoft_xbox :> <<14>>) @@
    (K_nintendo_3ds :> <<4912>>) @@
    (K_nintendo_64 :> <<3>>) @@
    (K_nintendo_ds :> <<12>>) @@
    (K_nintendo_gamecube :> <<2>>) @@
    (K_nintendo_switch :> <<4971>>) @@
    (K_nintendo_wii_u :> <<38>>) @@
    (K_nintendo_wii :> <<9>>) @@
    (K_sega_dreamcast :> <<16>>) @@
    (K_sega_saturn :> <<17>>) @@
    (K_sony_playstation_2 :> <<8>>) @@
    (K_sony_playstation_3 :> <<4911>>) @@
    (K_sony_playstation_4 :> <<4919>>) @@
    (K_sony_playstation_5 :> <<4980>>) @@
    (K_sony_playstation_portable :> <<13>>) @@
    (K_sony_playstation_vita :> <<39>>) @@
    (K_sony_playstation :> <<10>>)

\* Platform mapping for IGDB API
IGDB_PLATFORM_MAPPING ==
    (K_microsoft_windows :> <<6>>) @@
    (K_microsoft_xbox_360 :> <<12>>) @@
    (K_microsoft_xbox :> <<11>>) @@
    (K_nintendo_3ds :> <<37>>) @@
    (K_nintendo_64 :> <<4>>) @@
    (K_nintendo_ds :> <<20>>) @@
    (K_nintendo_gamecube :> <<21>>) @@
    (K_nintendo_switch :> <<130>>) @@
    (K_nintendo_wii_u :> <<41>>) @@
    (K_nintendo_wii :> <<5>>) @@
    (K_sega_dreamcast :> <<23>>) @@
    (K_sega_saturn :> <<32>>) @@
    (K_sony_playstation_2 :> <<8>>) @@
    (K_sony_playstation_3 :> <<9>>) @@
    (K_sony_playstation_4 :> <<48>>) @@
    (K_sony_playstation_5 :> <<167>>) @@
    (K_sony_playstation_portable :> <<38>>) @@
    (K_sony_playstation_vita :> <<46>>) @@
    (K_sony_playstation :> <<7>>)

\* What TABLE[key] evaluates to on a plain object literal: an own entry, or a
\* property inherited from Object.prototype.  Of the inherited properties only
\* "constructor" and "__proto__" are spelled without an upper-case letter, so
\* only they can be hit by a lower-cased key.
ObjectPrototypeKeys ==
    { <<"c","o","n","s","t","r","u","c","t","o","r">>,
      <<"_","_","p","r","o","t","o","_","_">> }

\* mutant: the table is read with the name as typed
platformIdsOf_asTyped(TABLE, systemName) ==
    LET key == systemName
    IN  IF key \in DOMAIN TABLE THEN [tag |-> "array", ids |-> TABLE[key]]
        ELSE IF key = <<"c","o","n","s","t","r","u","c","t","o","r">>
             THEN [tag |-> "function", ids |-> <<>>]
        ELSE IF key \in ObjectPrototypeKeys THEN [tag |-> "object", ids |-> <<>>]
        ELSE [tag |-> "array", ids |-> <<>>]

\* TABLE[systemName.toLowerCase()] || []  as  [tag, ids]:
\*   "array"    an own entry of the table, or the [] default
\*   "function" Object (inherited "constructor"): .length is 1, .join is missing
\*   "object"   Object.prototype (inherited "__proto__"): .length is undefined
platformIdsOf(TABLE, systemName) ==
    LET key == toLowerCase(systemName)
    IN  IF key \in DOMAIN TABLE THEN [tag |-> "array", ids |-> TABLE[key]]
        ELSE IF key = <<"c","o","n","s","t","r","u","c","t","o","r">>
             THEN [tag |-> "function", ids |-> <<>>]
        ELSE IF key \in ObjectPrototypeKeys THEN [tag |-> "object", ids |-> <<>>]
        ELSE [tag |-> "array", ids |-> <<>>]

\* platformIds.length > 0
lengthPositive(platformIds) ==
    \/ platformIds.tag = "function"
    \/ platformIds.tag = "array" /\ Len(platformIds.ids) > 0

\* building the request calls platformIds.join(",") when the length is positive;
\* join exists on arrays only, so the builder throws a TypeError otherwise
requestBuildThrows(platformIds) ==
    lengthPositive(platformIds) /\ platformIds.tag # "array"

\* the identifiers the platform filter and the selector work with
filterIds(platformIds) ==
    IF platformIds.tag = "array" THEN platformIds.ids ELSE <<>>

----------------------------------------------------------------------------
(* Candidate selection                                                     *)

\* Array.prototype.find, given the set of indices whose element satisfies the
\* callback: the index of the first such element, 0 if none
findIndex(matching) ==
    IF matching = {} THEN 0
    ELSE CHOOSE k \in matching : \A j \in matching : k <= j

\* includes on an array of numbers
arrayIncludes(arr, x) == \E k \in 1..Len(arr) : arr[k] = x

\* The exact-title find calls <name>.toLowerCase() on every candidate it visits:
\* it throws on a candidate without the name field met before the first match.
exactFindThrows(arr, nameField, title) ==
    \E k \in 1..Len(arr) :
        /\ ~Has(arr[k], nameField)
        /\ \A j \in 1..(k - 1) :
              Has(arr[j], nameField) /\ toLowerCase(arr[j][nameField]) # toLowerCase(title)

exactMatchIndex(arr, nameField, title) ==
    findIndex({ k \in 1..Len(arr) :
        Has(arr[k], nameField) /\ toLowerCase(arr[k][nameField]) = toLowerCase(title) })

\* mutant: the platform match is tried before the exact title match
bestMatchRAWG_platformFirst(results, title, ids) ==
    LET exactMatch == exactMatchIndex(results, "name", title)
        platformMatch == findIndex({ g \in 1..Len(results) :
            /\ Has(results[g], "platforms")
            /\ \E k \in 1..Len(results[g].platforms) :
                  arrayIncludes(ids, results[g].platforms[k].platform.id) })
    IN  IF Len(ids) > 0 /\ platformMatch # 0 THEN platformMatch
        ELSE IF exactMatch # 0 THEN exactMatch
        ELSE 1

\* RAWG: index of bestMatch in data.results (non-empty), ids = platformIds
bestMatchRAWG(results, title, ids) ==
    LET exactMatch == exactMatchIndex(results, "name", title)
        platformMatch == findIndex({ g \in 1..Len(results) :
            /\ Has(results[g], "platforms")
            /\ \E k \in 1..Len(results[g].platforms) :
                  arrayIncludes(ids, results[g].platforms[k].platform.id) })
    IN  IF exactMatch # 0 THEN exactMatch
        ELSE IF Len(ids) > 0 /\ platformMatch # 0 THEN platformMatch
        ELSE 1

\* mutant: without an exact match the first candidate is taken at once
bestMatchTGDB_noPlatform(games, title, ids) ==
    LET exactMatch == exactMatchIndex(games, "game_title", title)
    IN  IF exactMatch # 0 THEN exactMatch ELSE 1

\* TheGamesDB: index of bestMatch in data.data.games (non-empty)
bestMatchTGDB(games, title, ids) ==
    LET exactMatch == exactMatchIndex(games, "game_title", title)
        platformMatch == findIndex({ g \in 1..Len(games) :
            Has(games[g], "platform") /\ arrayIncludes(ids, games[g].platform) })
    IN  IF exactMatch # 0 THEN exactMatch
        ELSE IF Len(ids) > 0 /\ platformMatch # 0 THEN platformMatch
        ELSE 1

\* mutant: the platform match asks for every platform of the game to be in
\* the list (every for some)
bestMatchIGDB_every(games, title, ids) ==
    LET exactMatch == exactMatchIndex(games, "name", title)
        platformMatch == findIndex({ g \in 1..Len(games) :
            /\ Has(games[g], "platforms")
            /\ \A k \in 1..Len(games[g].platforms) :
                  arrayIncludes(ids, games[g].platforms[k]) })
    IN  IF exactMatch # 0 THEN exactMatch
        ELSE IF Len(ids) > 0 /\ platformMatch # 0 THEN platformMatch
        ELSE 1

\* IGDB: index of bestMatch in games (non-empty)
bestMatchIGDB(games, title, ids) ==
    LET exactMatch == exactMatchIndex(games, "name", title)
        platformMatch == findIndex({ g \in 1..Len(games) :
            /\ Has(games[g], "platforms")
            /\ \E k \in 1..Len(games[g].platforms) :
                  arrayIncludes(ids, games[g].platforms[k]) })
    IN  IF exactMatch # 0 THEN exactMatch
        ELSE IF Len(ids) > 0 /\ platformMatch # 0 THEN platformMatch
        ELSE 1

----------------------------------------------------------------------------
(* The provider lookups, from the response on.  A response is               *)
(*   [status |-> "neterr"]        fetch rejected                            *)
(*   [status |-> "http"]          response.ok is false                      *)
(*   [status |-> "badjson"]       response.json() rejected                  *)
(*   [status |-> "ok", body |-> b]                                          *)
(* and a lookup yields [failed, url]: failed when the catch block ran,      *)
(* url the string the function returns ("" is <<>>).                        *)

NoCover == [failed |-> FALSE, url |-> <<>>]

\* the scheme of every URL the code writes out, character by character; what
\* follows it in a URL is kept as one piece
Https == <<"h","t","t","p","s",":","/","/">>

\* mutant: the catch block returns a placeholder image instead of ""
Caught_placeholder == [failed |-> TRUE, url |-> Https \o <<"placeholder.example/none.png">>]

Caught == [failed |-> TRUE, url |-> <<>>]

\* x || ""  for an optional string property
orEmpty(o, k) == IF Has(o, k) /\ Truthy(o[k]) THEN o[k] ELSE <<>>

\* fetchGameCoverFromRAWG after `await fetch`
fetchGameCoverFromRAWG(title, systemName, response) ==
    LET ids == filterIds(platformIdsOf(PLATFORM_MAPPING, systemName))
    IN  IF response.status # "ok" THEN Caught
        ELSE LET data == response.body
             IN  IF Has(data, "results") /\ Len(data.results) > 0
                 THEN IF exactFindThrows(data.results, "name", title) THEN Caught
                      ELSE LET bestMatch == data.results[bestMatchRAWG(data.results, title, ids)]
                           IN  [failed |-> FALSE, url |-> orEmpty(bestMatch, "background_image")]
                 ELSE NoCover

\* Number.prototype.toString for a non-negative integer
RECURSIVE numToString(_)
numToString(n) ==
    LET digit == <<"0","1","2","3","4","5","6","7","8","9">>[(n % 10) + 1]
    IN  IF n < 10 THEN <<digit>> ELSE Append(numToString(n \div 10), digit)

\* mutant: the images request is sent for every selected candidate
afterSearchTGDB_alwaysImages(title, systemName, response) ==
    LET ids == filterIds(platformIdsOf(TGDB_PLATFORM_MAPPING, systemName))
        over(r) == [images |-> FALSE, id |-> 0, failed |-> r.failed, url |-> r.url]
    IN  IF response.status # "ok" THEN over(Caught)
        ELSE LET data == response.body
             IN  IF Has(data, "data") /\ Has(data.data, "games") /\ Len(data.data.games) > 0
                 THEN IF exactFindThrows(data.data.games, "game_title", title) THEN over(Caught)
                      ELSE LET games == data.data.games
                               bestMatch == games[bestMatchTGDB(games, title, ids)]
                           IN  [images |-> TRUE, id |-> bestMatch.id,
                                failed |-> FALSE, url |-> <<>>]
                 ELSE over(NoCover)

\* fetchGameCoverFromTheGamesDB after the search response: either the lookup
\* is over (images = FALSE, with its result) or the images request is issued
\* for bestMatch.id
afterSearchTGDB(title, systemName, response) ==
    LET ids == filterIds(platformIdsOf(TGDB_PLATFORM_MAPPING, systemName))
        over(r) == [images |-> FALSE, id |-> 0, failed |-> r.failed, url |-> r.url]
    IN  IF response.status # "ok" THEN over(Caught)
        ELSE LET data == response.body
             IN  IF Has(data, "data") /\ Has(data.data, "games") /\ Len(data.data.games) > 0
                 THEN IF exactFindThrows(data.data.games, "game_title", title) THEN over(Caught)
                      ELSE LET games == data.data.games
                               bestMatch == games[bestMatchTGDB(games, title, ids)]
                           IN  IF Has(bestMatch, "boxart") /\ Has(bestMatch.boxart, "front")
                               THEN [images |-> TRUE, id |-> bestMatch.id,
                                     failed |-> FALSE, url |-> <<>>]
                               ELSE over(NoCover)
                 ELSE over(NoCover)

\* `${a}/literal/${b}`; a missing property is printed as "undefined"
template(o, k) == IF Has(o, k) THEN o[k] ELSE Undefined

FrontLiteral == <<"f","r","o","n","t">>

\* mutant: the screenshots fallback is missing
chooseImage_noScreenshots(gameImages) ==
    LET boxart == IF Has(gameImages, "boxart") THEN gameImages.boxart ELSE <<>>
        frontBoxart == findIndex({ k \in 1..Len(boxart) :
                                       includes(boxart[k].filename, FrontLiteral) })
    IN  IF Has(gameImages, "boxart") /\ frontBoxart # 0
            THEN [kind |-> "boxart", index |-> frontBoxart]
        ELSE IF Has(gameImages, "boxart") /\ Len(boxart) > 0
            THEN [kind |-> "boxart", index |-> 1]
        ELSE [kind |-> "none", index |-> 0]

\* the image chosen from gameImages, as [kind, index]; kind "none" when no cover
chooseImage(gameImages) ==
    LET boxart == IF Has(gameImages, "boxart") THEN gameImages.boxart ELSE <<>>
        frontBoxart == findIndex({ k \in 1..Len(boxart) :
                                       includes(boxart[k].filename, FrontLiteral) })
    IN  IF Has(gameImages, "boxart") /\ frontBoxart # 0
            THEN [kind |-> "boxart", index |-> frontBoxart]
        ELSE IF Has(gameImages, "boxart") /\ Len(boxart) > 0
            THEN [kind |-> "boxart", index |-> 1]
        ELSE IF Has(gameImages, "screenshots") /\ Len(gameImages.screenshots) > 0
            THEN [kind |-> "screenshots", index |-> 1]
        ELSE [kind |-> "none", index |-> 0]

\* fetchGameCoverFromTheGamesDB after the images response
afterImagesTGDB(bestMatchId, response) ==
    IF response.status # "ok" THEN Caught
    ELSE LET imagesData == response.body
             key == numToString(bestMatchId)
         IN  IF Has(imagesData, "data") /\ key \in DOMAIN imagesData.data
             THEN LET gameImages == imagesData.data[key]
                      chosen == chooseImage(gameImages)
                  IN  IF chosen.kind = "boxart"
                      THEN [failed |-> FALSE,
                            url |-> template(imagesData, "base_url") \o <<"/boxart/front/">>
                                    \o gameImages.boxart[chosen.index].filename]
                      ELSE IF chosen.kind = "screenshots"
                      THEN [failed |-> FALSE,
                            url |-> template(imagesData, "base_url") \o <<"/screenshots/">>
                                    \o gameImages.screenshots[chosen.index].filename]
                      ELSE NoCover
             ELSE NoCover

\* getIGDBAccessToken: rethrows every failure of the token exchange
getIGDBAccessTokenThrows(response) == response.status # "ok"

\* fetchGameCoverFromIGDB after the search response
fetchGameCoverFromIGDB(title, systemName, response) ==
    LET ids == filterIds(platformIdsOf(IGDB_PLATFORM_MAPPING, systemName))
    IN  IF response.status # "ok" THEN Caught
        ELSE LET games == response.body
             IN  IF Len(games) > 0
                 THEN IF exactFindThrows(games, "name", title) THEN Caught
                      ELSE LET bestMatch == games[bestMatchIGDB(games, title, ids)]
                           IN  IF Has(bestMatch, "cover") /\ Has(bestMatch.cover, "image_id")
                                  /\ Truthy(bestMatch.cover.image_id)
                               THEN [failed |-> FALSE,
                                     url |-> Https \o <<"images.igdb.com/igdb/image/upload/t_cover_big/">>
                                             \o bestMatch.cover.image_id \o <<".jpg">>]
                               ELSE NoCover
                 ELSE NoCover

\* mutant: the IGDB lookup goes straight to the search, with a token kept
\* from elsewhere
lookupStart_noToken(api, game, tgdbKey, igdbId, igdbSecret) ==
    IF api = "rawg"
    THEN IF requestBuildThrows(platformIdsOf(PLATFORM_MAPPING, game.systemName))
         THEN [request |-> "none", failed |-> TRUE]
         ELSE [request |-> "search", failed |-> FALSE]
    ELSE IF api = "thegamesdb"
    THEN IF ~Truthy(tgdbKey) THEN [request |-> "none", failed |-> FALSE]
         ELSE IF requestBuildThrows(platformIdsOf(TGDB_PLATFORM_MAPPING, game.systemName))
         THEN [request |-> "none", failed |-> TRUE]
         ELSE [request |-> "search", failed |-> FALSE]
    ELSE IF ~Truthy(igdbId) \/ ~Truthy(igdbSecret)
         THEN [request |-> "none", failed |-> FALSE]
         ELSE [request |-> "search", failed |-> FALSE]

\* The synchronous prefix of a lookup, up to its first await: the request it
\* issues ("search", "token"), or "none" when it returns "" without a request
\* (failed tells whether through the catch block).
lookupStart(api, game, tgdbKey, igdbId, igdbSecret) ==
    IF api = "rawg"
    THEN IF requestBuildThrows(platformIdsOf(PLATFORM_MAPPING, game.systemName))
         THEN [request |-> "none", failed |-> TRUE]
         ELSE [request |-> "search", failed |-> FALSE]
    ELSE IF api = "thegamesdb"
    THEN IF ~Truthy(tgdbKey) THEN [request |-> "none", failed |-> FALSE]
         ELSE IF requestBuildThrows(platformIdsOf(TGDB_PLATFORM_MAPPING, game.systemName))
         THEN [request |-> "none", failed |-> TRUE]
         ELSE [request |-> "search", failed |-> FALSE]
    ELSE IF ~Truthy(igdbId) \/ ~Truthy(igdbSecret)
         THEN [request |-> "none", failed |-> FALSE]
         ELSE [request |-> "token", failed |-> FALSE]

----------------------------------------------------------------------------
(* Bounds and the inputs drawn within them                                 *)

\* longest input array
MaxItems == 2

\* longest candidate list handed to a selector on its own
MaxCandidates == 2

\* longest boxart / screenshots array handed to the image chooser on its own
MaxImages == 2

SeqsUpTo(S, n) == UNION { [1..k -> S] : k \in 0..n }

ApiTypes == {"rawg", "thegamesdb", "igdb"}

Secret == <<"k","e","y">>

TitleFoo == <<"F","o","o">>

TitleBar == <<"b","a","r">>

SysN64 == <<"N","i","n","t","e","n","d","o"," ","6","4">>

SysUnknown == <<"A","t","a","r","i">>

OldUrl == Https \o <<"old.example/cover.png">>

\* well-formed GameItems: distinct titles, a platform of the tables and two
\* that are not, one item already carrying an imageUrl
Game1 == [title |-> TitleFoo, systemName |-> SysN64]

Game2 == [title |-> TitleBar, systemName |-> SysUnknown, imageUrl |-> OldUrl]

\* elements that fail the validation loop
NoTitle == [systemName |-> SysN64]

NoSystemName == [title |-> TitleFoo, systemName |-> <<>>]

\* a platform name that hits a property inherited from Object.prototype
SysConstructor == <<"C","o","n","s","t","r","u","c","t","o","r">>

Game3 == [title |-> TitleBar, systemName |-> SysConstructor]

Elements == {Game1, Game2, Game3, NoTitle, NoSystemName}

\* The text of the input field, by what JSON.parse and trim make of it:
\* blank, not JSON, JSON that is no array, a JSON array of elements.
Texts ==
    { [kind |-> "blank"], [kind |-> "garbage"],
      [kind |-> "json", value |-> [type |-> "object"]] }
    \cup { [kind |-> "json", value |-> [type |-> "array", items |-> items]] :
             items \in SeqsUpTo(Elements, MaxItems) }

\* a result list published by an earlier run
PreviousOutput == << [title |-> TitleBar, systemName |-> SysN64, imageUrl |-> OldUrl] >>

\* ---- what the providers may answer ----

Failures == { [status |-> "neterr"], [status |-> "http"], [status |-> "badjson"] }

Ok(bodies) == { [status |-> "ok", body |-> b] : b \in bodies }

RawgUrl1 == Https \o <<"media.rawg.io/media/games/1.jpg">>

RawgUrl2 == Https \o <<"media.rawg.io/media/games/2.jpg">>

RawgNear == [id |-> 1, name |-> <<"f","o","o"," ","2">>, background_image |-> RawgUrl1,
             platforms |-> << [platform |-> [id |-> 83]] >>]

RawgExact == [id |-> 2, name |-> <<"f","o","o">>, background_image |-> RawgUrl2,
              platforms |-> << [platform |-> [id |-> 4]] >>]

RawgNoImage == [id |-> 3, name |-> <<"b","a","z">>, background_image |-> <<>>]

RawgNoName == [id |-> 4, background_image |-> RawgUrl1]

\* an image field that holds a path, not a URL
RawgRelative == [id |-> 5, name |-> <<"b","a","r">>,
                 background_image |-> <<"/","media/games/5.jpg">>]

RawgBodies ==
    { [count |-> 0],
      [results |-> <<>>],
      [results |-> <<RawgNear, RawgExact>>],
      [results |-> <<RawgNoImage>>],
      [results |-> <<RawgNoName>>],
      [results |-> <<RawgRelative>>] }

FileFront == <<"b","o","x","/","f","r","o","n","t",".","j","p","g">>

FileBack == <<"b","o","x","/","b","a","c","k",".","j","p","g">>

FileShot == <<"s","h","o","t",".","j","p","g">>

TgdbNoArt == [id |-> 5, game_title |-> <<"f","o","o"," ","2">>, platform |-> 3]

TgdbArt == [id |-> 12, game_title |-> <<"f","o","o">>, platform |-> 9,
            boxart |-> [front |-> [filename |-> FileFront]]]

TgdbNoTitle == [id |-> 6, platform |-> 3]

TgdbSearchBodies ==
    { [code |-> 200],
      [data |-> [count |-> 0, games |-> <<>>]],
      [data |-> [count |-> 2, games |-> <<TgdbNoArt, TgdbArt>>]],
      [data |-> [count |-> 1, games |-> <<TgdbArt>>]],
      [data |-> [count |-> 1, games |-> <<TgdbNoTitle>>]] }

TgdbBaseUrl == Https \o <<"cdn.thegamesdb.net/images/original">>

TgdbImagesBodies ==
    { [code |-> 200],
      \* the collection of another game only
      [base_url |-> TgdbBaseUrl, data |-> (numToString(5) :> [boxart |-> <<[filename |-> FileFront]>>])],
      \* a body that carries no base_url
      [data |-> (numToString(12) :> [boxart |-> <<[filename |-> FileFront]>>])],
      [base_url |-> TgdbBaseUrl,
       data |-> (numToString(12) :> [boxart |-> <<[filename |-> FileBack], [filename |-> FileFront]>>])],
      [base_url |-> TgdbBaseUrl,
       data |-> (numToString(12) :> [screenshots |-> <<[filename |-> FileShot]>>])] }

IgdbNear == [id |-> 1, name |-> <<"f","o","o"," ","2">>, platforms |-> <<4>>,
             cover |-> [id |-> 1, image_id |-> <<"c","o","1">>]]

IgdbExact == [id |-> 2, name |-> <<"F","O","O">>, platforms |-> <<6>>,
              cover |-> [id |-> 2, image_id |-> <<"c","o","2">>]]

IgdbNoCover == [id |-> 3, name |-> <<"b","a","z">>]

IgdbNoName == [id |-> 4, cover |-> [id |-> 4, image_id |-> <<"c","o","4">>]]

IgdbSearchBodies ==
    { <<>>, <<IgdbNear, IgdbExact>>, <<IgdbNoCover>>, <<IgdbNoName>> }

IgdbTokenBodies == { [access_token |-> <<"t","o","k">>, expires_in |-> 1, token_type |-> "bearer"] }

----------------------------------------------------------------------------
(* The component's state                                                   *)

VARIABLES
    \* useState of GameCoverResolver
    inputJson, outputJson, isProcessing, error, processedCount, totalCount,
    activeApi, rawgApiKey, tgdbApiKey, igdbClientId, igdbClientSecret,
    \* the last toast shown
    toast,
    \* the running processGames: where it is suspended and its locals
    pc, games, i, gamesWithCovers, bestMatchId,
    \* requests in flight, oldest first
    pending,
    \* history of the current (or last) run: every request issued, every
    \* lookup result, every inter-item delay awaited, and outputJson as the
    \* run found it
    requests, lookups, delays, outputAtStart,
    \* inputs and result of a selector or image chooser applied on its own
    probe, picked

formVars == <<inputJson, activeApi, rawgApiKey, tgdbApiKey, igdbClientId, igdbClientSecret>>

runVars == <<outputJson, isProcessing, processedCount, totalCount, toast, pc, i,
             gamesWithCovers, bestMatchId, pending, requests, lookups, delays>>

pureVars == <<probe, picked>>

vars == <<formVars, runVars, error, games, outputAtStart, pureVars>>

NoToast == [title |-> "none"]

NoProbe == [op |-> "none"]

NoPick == [by |-> "none"]

\* inputJson.trim() is empty
trimIsEmpty(text) == text.kind = "blank"

\* mutant: the button stays enabled during a run
buttonDisabled_ignoresProcessing == trimIsEmpty(inputJson)

\* the button that calls processGames is disabled
buttonDisabled == isProcessing \/ trimIsEmpty(inputJson)

\* JSON.parse(inputJson) throws a SyntaxError
parseThrows(text) == text.kind # "json"

\* mutant: only the first element is validated
validationThrows_firstOnly(items) ==
    /\ Len(items) > 0
    /\ \/ ~Has(items[1], "title") \/ ~Truthy(items[1].title)
       \/ ~Has(items[1], "systemName") \/ ~Truthy(items[1].systemName)

\* the validation loop throws on some element
validationThrows(items) ==
    \E k \in 1..Len(items) :
        \/ ~Has(items[k], "title") \/ ~Truthy(items[k].title)
        \/ ~Has(items[k], "systemName") \/ ~Truthy(items[k].systemName)

\* mutant: the spread's imageUrl survives when the lookup found nothing
withCover_keepsInput(game, imageUrl) ==
    [k \in DOMAIN game \cup {"imageUrl"} |->
        IF k = "imageUrl"
        THEN (IF Truthy(imageUrl) THEN imageUrl
              ELSE IF Has(game, "imageUrl") THEN game.imageUrl ELSE Undefined)
        ELSE game[k]]

\* { ...game, imageUrl: imageUrl || undefined }
withCover(game, imageUrl) ==
    [k \in DOMAIN game \cup {"imageUrl"} |->
        IF k = "imageUrl" THEN (IF Truthy(imageUrl) THEN imageUrl ELSE Undefined)
        ELSE game[k]]

\* mutant: the result is put at the front of the list (unshift for push)
push_unshift(arr, x) == <<x>> \o arr

\* gamesWithCovers.push(x)
push(arr, x) == Append(arr, x)

\* the two credential checks at the head of processGames
tgdbKeyMissing(api, key) == api = "thegamesdb" /\ ~Truthy(key)

\* mutant: the run is refused only when both IGDB credentials are missing
igdbCredentialsMissing_both(api, id, secret) ==
    api = "igdb" /\ (~Truthy(id) /\ ~Truthy(secret))

igdbCredentialsMissing(api, id, secret) ==
    api = "igdb" /\ (~Truthy(id) \/ ~Truthy(secret))

\* g.imageUrl is truthy
hasCover(g) == Has(g, "imageUrl") /\ Truthy(g.imageUrl)

successCount(list) == Cardinality({k \in 1..Len(list) : hasCover(list[k])})

IGDB_DELAY == 250

DEFAULT_DELAY == 1000

\* mutant: one delay for every provider
interItemDelay_same(api) == DEFAULT_DELAY

interItemDelay(api) == IF api = "igdb" THEN IGDB_DELAY ELSE DEFAULT_DELAY

\* state after construction, with the form filled in: the provider tab, the
\* credentials of that tab, the input text; outputJson is empty or holds the
\* result of an earlier run
Init ==
    /\ activeApi \in ApiTypes
    /\ rawgApiKey \in {<<>>, Secret}
    /\ tgdbApiKey \in {<<>>, Secret}
    /\ igdbClientId \in {<<>>, Secret}
    /\ igdbClientSecret \in {<<>>, Secret}
    /\ activeApi # "rawg" => rawgApiKey = <<>>
    /\ activeApi # "thegamesdb" => tgdbApiKey = <<>>
    /\ activeApi # "igdb" => igdbClientId = <<>> /\ igdbClientSecret = <<>>
    /\ inputJson \in Texts
    /\ outputJson \in {<<>>, PreviousOutput}
    /\ isProcessing = FALSE
    /\ error = ""
    /\ processedCount = 0
    /\ totalCount = 0
    /\ toast = NoToast
    /\ pc = "idle"
    /\ games = <<>>
    /\ i = 0
    /\ gamesWithCovers = <<>>
    /\ bestMatchId = 0
    /\ pending = <<>>
    /\ requests = <<>>
    /\ lookups = <<>>
    /\ delays = <<>>
    /\ outputAtStart = outputJson
    /\ probe = NoProbe
    /\ picked = NoPick

\* ---- pieces of processGames; each sets runVars ----

\* mutant: the finally block lacks setTotalCount(0)
complete_keepsTotal(gwc, lks, dls, reqs, pend) ==
    /\ outputJson' = gwc
    /\ toast' = [title |-> "Processing Complete!", found |-> successCount(gwc), of |-> Len(gwc)]
    /\ isProcessing' = FALSE
    /\ processedCount' = 0
    /\ totalCount' = Len(gwc)
    /\ pc' = "idle"
    /\ i' = Len(gwc)
    /\ gamesWithCovers' = gwc
    /\ bestMatchId' = 0
    /\ pending' = pend
    /\ requests' = reqs
    /\ lookups' = lks
    /\ delays' = dls

\* setOutputJson, the summary toast, and the finally block
complete(gwc, lks, dls, reqs, pend) ==
    /\ outputJson' = gwc
    /\ toast' = [title |-> "Processing Complete!", found |-> successCount(gwc), of |-> Len(gwc)]
    /\ isProcessing' = FALSE
    /\ processedCount' = 0
    /\ totalCount' = 0
    /\ pc' = "idle"
    /\ i' = Len(gwc)
    /\ gamesWithCovers' = gwc
    /\ bestMatchId' = 0
    /\ pending' = pend
    /\ requests' = reqs
    /\ lookups' = lks
    /\ delays' = dls

\* the lookup of item k has returned r: push, progress, then the delay or the end
settle(gs, k, gwc, r, lks, dls, reqs, pend) ==
    LET gwc2 == push(gwc, withCover(gs[k], r.url))
        lks2 == Append(lks, [item |-> k, failed |-> r.failed, url |-> r.url])
    IN  IF k < Len(gs)
        THEN /\ gamesWithCovers' = gwc2
             /\ lookups' = lks2
             /\ processedCount' = k
             /\ totalCount' = Len(gs)
             /\ isProcessing' = TRUE
             /\ pc' = "delay"
             /\ i' = k
             /\ bestMatchId' = 0
             /\ pending' = pend
             /\ requests' = reqs
             /\ delays' = Append(dls, [after |-> k, ms |-> interItemDelay(activeApi)])
             /\ UNCHANGED <<outputJson, toast>>
        ELSE complete(gwc2, lks2, dls, reqs, pend)

\* a request of item k goes out and the run suspends on it
issue(kind, gs, k, gwc, id, lks, dls, reqs, pend) ==
    /\ pc' = kind
    /\ pending' = Append(pend, [kind |-> kind, item |-> k])
    /\ requests' = Append(reqs, [kind |-> kind, item |-> k, appended |-> Len(gwc)])
    /\ i' = k
    /\ bestMatchId' = id
    /\ gamesWithCovers' = gwc
    /\ lookups' = lks
    /\ delays' = dls
    /\ isProcessing' = TRUE
    /\ processedCount' = Len(gwc)
    /\ totalCount' = Len(gs)
    /\ UNCHANGED <<outputJson, toast>>

\* iteration k of the loop, up to the first await of its lookup
iteration(gs, k, gwc, lks, dls, reqs, pend) ==
    LET start == lookupStart(activeApi, gs[k], tgdbApiKey, igdbClientId, igdbClientSecret)
    IN  IF start.request # "none"
        THEN issue(start.request, gs, k, gwc, 0, lks, dls, reqs, pend)
        ELSE settle(gs, k, gwc, [failed |-> start.failed, url |-> <<>>], lks, dls, reqs, pend)

\* mutant: the error path also clears the published list
abort_clearsOutput(message, title, pend) ==
    /\ error' = message
    /\ toast' = [title |-> title, description |-> message]
    /\ isProcessing' = FALSE
    /\ processedCount' = 0
    /\ totalCount' = 0
    /\ pc' = "idle"
    /\ i' = 0
    /\ gamesWithCovers' = <<>>
    /\ bestMatchId' = 0
    /\ pending' = pend
    /\ requests' = <<>>
    /\ lookups' = <<>>
    /\ delays' = <<>>
    /\ games' = <<>>
    /\ outputJson' = <<>>

\* the exits on missing credentials, ahead of the try: setError, the toast,
\* setIsProcessing(false) and return; setProcessedCount(0) was called at the
\* head of processGames, and totalCount is not written
refuse(message, title, pend) ==
    /\ error' = message
    /\ toast' = [title |-> title, description |-> message]
    /\ isProcessing' = FALSE
    /\ processedCount' = 0
    /\ pc' = "idle"
    /\ i' = 0
    /\ gamesWithCovers' = <<>>
    /\ bestMatchId' = 0
    /\ pending' = pend
    /\ requests' = <<>>
    /\ lookups' = <<>>
    /\ delays' = <<>>
    /\ games' = <<>>
    /\ UNCHANGED <<outputJson, totalCount>>

\* a throw ahead of the loop: the catch block (error and toast) and the
\* finally block, nothing published
abort(message, title, pend) ==
    /\ error' = message
    /\ toast' = [title |-> title, description |-> message]
    /\ isProcessing' = FALSE
    /\ processedCount' = 0
    /\ totalCount' = 0
    /\ pc' = "idle"
    /\ i' = 0
    /\ gamesWithCovers' = <<>>
    /\ bestMatchId' = 0
    /\ pending' = pend
    /\ requests' = <<>>
    /\ lookups' = <<>>
    /\ delays' = <<>>
    /\ games' = <<>>
    /\ UNCHANGED outputJson

\* mutant: with IGDB the token exchange is made once, ahead of the loop, so
\* also when the loop has nothing to do
processGames_tokenAheadOfLoop ==
    /\ ~buttonDisabled
    /\ outputAtStart' = outputJson
    /\ IF tgdbKeyMissing(activeApi, tgdbApiKey)
       THEN refuse("TheGamesDB API requires an API key", "API Key Required", pending)
       ELSE IF igdbCredentialsMissing(activeApi, igdbClientId, igdbClientSecret)
       THEN refuse("IGDB API requires both Client ID and Client Secret",
                   "API Credentials Required", pending)
       ELSE IF parseThrows(inputJson)
       THEN abort("SyntaxError", "Error", pending)
       ELSE IF inputJson.value.type # "array"
       THEN abort("Input must be an array of games", "Error", pending)
       ELSE IF validationThrows(inputJson.value.items)
       THEN abort("Each game must have 'title' and 'systemName' properties", "Error", pending)
       ELSE LET gs == inputJson.value.items
                ahead == IF activeApi = "igdb"
                         THEN << [kind |-> "token", item |-> 0, appended |-> 0] >>
                         ELSE <<>>
            IN  /\ error' = ""
                /\ games' = gs
                /\ IF Len(gs) = 0
                   THEN complete(<<>>, <<>>, <<>>, ahead, pending)
                   ELSE iteration(gs, 1, <<>>, <<>>, <<>>, <<>>, pending)
    /\ UNCHANGED <<formVars, pureVars>>

\* the click on "Process Games": processGames up to its first await
processGames ==
    /\ ~buttonDisabled
    /\ outputAtStart' = outputJson
    /\ IF tgdbKeyMissing(activeApi, tgdbApiKey)
       THEN refuse("TheGamesDB API requires an API key", "API Key Required", pending)
       ELSE IF igdbCredentialsMissing(activeApi, igdbClientId, igdbClientSecret)
       THEN refuse("IGDB API requires both Client ID and Client Secret",
                   "API Credentials Required", pending)
       ELSE IF parseThrows(inputJson)
       THEN abort("SyntaxError", "Error", pending)
       ELSE IF inputJson.value.type # "array"
       THEN abort("Input must be an array of games", "Error", pending)
       ELSE IF validationThrows(inputJson.value.items)
       THEN abort("Each game must have 'title' and 'systemName' properties", "Error", pending)
       ELSE LET gs == inputJson.value.items
            IN  /\ error' = ""
                /\ games' = gs
                /\ IF Len(gs) = 0
                   THEN complete(<<>>, <<>>, <<>>, <<>>, pending)
                   ELSE iteration(gs, 1, <<>>, <<>>, <<>>, <<>>, pending)
    /\ UNCHANGED <<formVars, pureVars>>

\* a response reaches the suspended run
awaiting(kind) == pc = kind /\ Len(pending) > 0 /\ Head(pending).kind = kind

\* mutant: a search that failed is sent once more
RawgSearchResponse_retryOnError ==
    /\ awaiting("search") /\ activeApi = "rawg"
    /\ \E response \in Failures \cup Ok(RawgBodies) :
          IF /\ response.status # "ok"
             /\ \A n \in 1..(Len(requests) - 1) : requests[n].item # i
          THEN issue("search", games, i, gamesWithCovers, 0,
                     lookups, delays, requests, Tail(pending))
          ELSE settle(games, i, gamesWithCovers,
                      fetchGameCoverFromRAWG(games[i].title, games[i].systemName, response),
                      lookups, delays, requests, Tail(pending))
    /\ UNCHANGED <<formVars, pureVars, error, games, outputAtStart>>

RawgSearchResponse ==
    /\ awaiting("search") /\ activeApi = "rawg"
    /\ \E response \in Failures \cup Ok(RawgBodies) :
          settle(games, i, gamesWithCovers,
                 fetchGameCoverFromRAWG(games[i].title, games[i].systemName, response),
                 lookups, delays, requests, Tail(pending))
    /\ UNCHANGED <<formVars, pureVars, error, games, outputAtStart>>

TgdbSearchResponse ==
    /\ awaiting("search") /\ activeApi = "thegamesdb"
    /\ \E response \in Failures \cup Ok(TgdbSearchBodies) :
          LET r == afterSearchTGDB(games[i].title, games[i].systemName, response)
          IN  IF r.images
              THEN issue("images", games, i, gamesWithCovers, r.id,
                         lookups, delays, requests, Tail(pending))
              ELSE settle(games, i, gamesWithCovers, [failed |-> r.failed, url |-> r.url],
                          lookups, delays, requests, Tail(pending))
    /\ UNCHANGED <<formVars, pureVars, error, games, outputAtStart>>

TgdbImagesResponse ==
    /\ awaiting("images") /\ activeApi = "thegamesdb"
    /\ \E response \in Failures \cup Ok(TgdbImagesBodies) :
          settle(games, i, gamesWithCovers, afterImagesTGDB(bestMatchId, response),
                 lookups, delays, requests, Tail(pending))
    /\ UNCHANGED <<formVars, pureVars, error, games, outputAtStart>>

IgdbTokenResponse ==
    /\ awaiting("token") /\ activeApi = "igdb"
    /\ \E response \in Failures \cup Ok(IgdbTokenBodies) :
          IF getIGDBAccessTokenThrows(response)
             \/ requestBuildThrows(platformIdsOf(IGDB_PLATFORM_MAPPING, games[i].systemName))
          THEN settle(games, i, gamesWithCovers, Caught,
                      lookups, delays, requests, Tail(pending))
          ELSE issue("search", games, i, gamesWithCovers, 0,
                     lookups, delays, requests, Tail(pending))
    /\ UNCHANGED <<formVars, pureVars, error, games, outputAtStart>>

IgdbSearchResponse ==
    /\ awaiting("search") /\ activeApi = "igdb"
    /\ \E response \in Failures \cup Ok(IgdbSearchBodies) :
          settle(games, i, gamesWithCovers,
                 fetchGameCoverFromIGDB(games[i].title, games[i].systemName, response),
                 lookups, delays, requests, Tail(pending))
    /\ UNCHANGED <<formVars, pureVars, error, games, outputAtStart>>

\* the inter-item timer fires: the loop goes on with item i + 1
DelayElapsed ==
    /\ pc = "delay"
    /\ iteration(games, i + 1, gamesWithCovers, lookups, delays, requests, pending)
    /\ UNCHANGED <<formVars, pureVars, error, games, outputAtStart>>

\* Between runs the user empties a credential field of the open tab (the
\* onChange handlers of the key fields).  The toast of the last run is gone
\* and the record of that run is dropped; what the component keeps
\* (outputJson, error, the counters) stays.
ClearCredential ==
    /\ pc = "idle"
    /\ \/ /\ activeApi = "thegamesdb" /\ tgdbApiKey # <<>>
          /\ tgdbApiKey' = <<>>
          /\ UNCHANGED <<igdbClientId, igdbClientSecret>>
       \/ /\ activeApi = "igdb" /\ igdbClientId # <<>>
          /\ igdbClientId' = <<>>
          /\ UNCHANGED <<tgdbApiKey, igdbClientSecret>>
       \/ /\ activeApi = "igdb" /\ igdbClientSecret # <<>>
          /\ igdbClientSecret' = <<>>
          /\ UNCHANGED <<tgdbApiKey, igdbClientId>>
    /\ toast' = NoToast
    /\ games' = <<>>
    /\ i' = 0
    /\ gamesWithCovers' = <<>>
    /\ requests' = <<>>
    /\ lookups' = <<>>
    /\ delays' = <<>>
    /\ outputAtStart' = outputJson
    /\ UNCHANGED <<inputJson, activeApi, rawgApiKey, outputJson, isProcessing, error,
                   processedCount, totalCount, pc, bestMatchId, pending, pureVars>>

Next ==
    \/ processGames
    \/ ClearCredential
    \/ RawgSearchResponse
    \/ TgdbSearchResponse
    \/ TgdbImagesResponse
    \/ IgdbTokenResponse
    \/ IgdbSearchResponse
    \/ DelayElapsed

Spec == Init /\ [][Next]_vars

\* Every request is answered or fails, and every timer fires: a step that a
\* suspended run is waiting for is eventually taken.  Nothing obliges the
\* user to start a run or to edit the form.
Fairness ==
    /\ WF_vars(RawgSearchResponse)
    /\ WF_vars(TgdbSearchResponse)
    /\ WF_vars(TgdbImagesResponse)
    /\ WF_vars(IgdbTokenResponse)
    /\ WF_vars(IgdbSearchResponse)
    /\ WF_vars(DelayElapsed)

FairSpec == Init /\ [][Next]_vars /\ Fairness

----------------------------------------------------------------------------
(* The selectors and the image chooser applied on their own, over every    *)
(* candidate list and image collection within the bounds                   *)

\* a candidate as the selectors see it: a display name and platform
\* references (noPlatforms: the property is missing)
CandidateNames == { <<"f","o","o">>, <<"F","O","O">>, <<"f","o","o"," ","2">> }

CandidatePlatforms == { <<>>, <<3>>, <<9>>, <<9, 3>> }

Candidates ==
    [name : CandidateNames, platforms : CandidatePlatforms, noPlatforms : {FALSE}]
    \cup [name : CandidateNames, platforms : {<<>>}, noPlatforms : {TRUE}]

\* the candidate in each provider's shape (RAWGGame, TheGamesDBGame, IGDBGame)
asRAWGGame(c) ==
    IF c.noPlatforms THEN [name |-> c.name]
    ELSE [name |-> c.name,
          platforms |-> [k \in 1..Len(c.platforms) |-> [platform |-> [id |-> c.platforms[k]]]]]

asTheGamesDBGame(c) ==
    IF c.noPlatforms \/ Len(c.platforms) = 0 THEN [game_title |-> c.name]
    ELSE [game_title |-> c.name, platform |-> c.platforms[1]]

asIGDBGame(c) ==
    IF c.noPlatforms THEN [name |-> c.name] ELSE [name |-> c.name, platforms |-> c.platforms]

asRAWGGames(cs) == [k \in 1..Len(cs) |-> asRAWGGame(cs[k])]

asTheGamesDBGames(cs) == [k \in 1..Len(cs) |-> asTheGamesDBGame(cs[k])]

asIGDBGames(cs) == [k \in 1..Len(cs) |-> asIGDBGame(cs[k])]

SelectProbes ==
    { [op |-> "select", title |-> t, ids |-> ids, candidates |-> cs] :
        t \in {TitleFoo, TitleBar},
        ids \in {<<>>, <<3>>},
        cs \in SeqsUpTo(Candidates, MaxCandidates) \ {<<>>} }

BoxartFiles == { FileFront, FileBack,
                 <<"f","r","o","n","t","-","2",".","p","n","g">> }

ScreenshotFiles == { FileShot, <<"f","r","o","n","t","-","s","h","o","t">> }

imageList(files, n) ==
    { [k \in 1..Len(fs) |-> [filename |-> fs[k]]] : fs \in SeqsUpTo(files, n) }

GameImages ==
    { [boxart |-> b, screenshots |-> sh] :
        b \in imageList(BoxartFiles, MaxImages), sh \in imageList(ScreenshotFiles, MaxImages) }
    \cup { [boxart |-> b] : b \in imageList(BoxartFiles, MaxImages) }
    \cup { [screenshots |-> sh] : sh \in imageList(ScreenshotFiles, MaxImages) }
    \cup { [other |-> <<>>] }

ImageProbes ==
    { [op |-> "images", id |-> 12,
       body |-> [base_url |-> TgdbBaseUrl, data |-> (numToString(id) :> gi)]] :
        id \in {5, 12}, gi \in GameImages }

SysGameCube == <<"N","i","n","t","e","n","d","o"," ","G","a","m","e","C","u","b","e">>

\* platform names as a user may type them: table entries in several
\* spellings, names of no table, names of inherited properties
PlatformNames ==
    { SysGameCube, K_nintendo_gamecube,
      SysN64, K_nintendo_64, <<"N","I","N","T","E","N","D","O"," ","6","4">>,
      SysUnknown, toLowerCase(SysUnknown),
      SysConstructor, toLowerCase(SysConstructor) }

PlatformProbes ==
    { [op |-> "platform", name |-> a, other |-> b] : a, b \in PlatformNames }

NotSelected == [rawg |-> 0, tgdb |-> 0, igdb |-> 0]

NotResolved == [applied |-> FALSE]

InitPure ==
    /\ activeApi = "rawg"
    /\ rawgApiKey = <<>>
    /\ tgdbApiKey = <<>>
    /\ igdbClientId = <<>>
    /\ igdbClientSecret = <<>>
    /\ inputJson = [kind |-> "blank"]
    /\ outputJson = <<>>
    /\ isProcessing = FALSE
    /\ error = ""
    /\ processedCount = 0
    /\ totalCount = 0
    /\ toast = NoToast
    /\ pc = "idle"
    /\ games = <<>>
    /\ i = 0
    /\ gamesWithCovers = <<>>
    /\ bestMatchId = 0
    /\ pending = <<>>
    /\ requests = <<>>
    /\ lookups = <<>>
    /\ delays = <<>>
    /\ outputAtStart = <<>>
    /\ \/ probe \in SelectProbes /\ picked = NotSelected
       \/ probe \in ImageProbes /\ picked = NotResolved
       \/ probe \in PlatformProbes /\ picked = NotResolved

componentVars == <<formVars, runVars, error, games, outputAtStart>>

SelectRAWG ==
    /\ probe.op = "select"
    /\ picked' = [picked EXCEPT !.rawg =
           bestMatchRAWG(asRAWGGames(probe.candidates), probe.title, probe.ids)]
    /\ UNCHANGED <<componentVars, probe>>

\* a TheGamesDB game carries one platform number
SelectTGDB ==
    /\ probe.op = "select"
    /\ \A k \in 1..Len(probe.candidates) : Len(probe.candidates[k].platforms) <= 1
    /\ picked' = [picked EXCEPT !.tgdb =
           bestMatchTGDB(asTheGamesDBGames(probe.candidates), probe.title, probe.ids)]
    /\ UNCHANGED <<componentVars, probe>>

SelectIGDB ==
    /\ probe.op = "select"
    /\ picked' = [picked EXCEPT !.igdb =
           bestMatchIGDB(asIGDBGames(probe.candidates), probe.title, probe.ids)]
    /\ UNCHANGED <<componentVars, probe>>

ResolveImages ==
    /\ probe.op = "images"
    /\ LET r == afterImagesTGDB(probe.id, [status |-> "ok", body |-> probe.body])
       IN  picked' = [applied |-> TRUE, failed |-> r.failed, url |-> r.url]
    /\ UNCHANGED <<componentVars, probe>>

\* the first statement of each lookup, for the two names of the probe
NormalizePlatform ==
    /\ probe.op = "platform"
    /\ picked' = [applied |-> TRUE,
                  rawg |-> << platformIdsOf(PLATFORM_MAPPING, probe.name),
                              platformIdsOf(PLATFORM_MAPPING, probe.other) >>,
                  tgdb |-> << platformIdsOf(TGDB_PLATFORM_MAPPING, probe.name),
                              platformIdsOf(TGDB_PLATFORM_MAPPING, probe.other) >>,
                  igdb |-> << platformIdsOf(IGDB_PLATFORM_MAPPING, probe.name),
                              platformIdsOf(IGDB_PLATFORM_MAPPING, probe.other) >>]
    /\ UNCHANGED <<componentVars, probe>>

NextPure == SelectRAWG \/ SelectTGDB \/ SelectIGDB \/ ResolveImages \/ NormalizePlatform

PureSpec == InitPure /\ [][NextPure]_vars

----------------------------------------------------------------------------
(* Properties                                                              *)

\* the run has ended with the summary toast
Complete == pc = "idle" /\ toast.title = "Processing Complete!"

\* the run has ended on one of the error exits
Aborted ==
    pc = "idle" /\ toast.title \in {"API Key Required", "API Credentials Required", "Error"}

inputIsArray == inputJson.kind = "json" /\ inputJson.value.type = "array"

inputItems == inputJson.value.items

malformedElement(g) ==
    \/ "title" \notin DOMAIN g \/ g.title = <<>>
    \/ "systemName" \notin DOMAIN g \/ g.systemName = <<>>

inputInvalid ==
    \/ inputJson.kind # "json"
    \/ inputJson.value.type # "array"
    \/ \E k \in 1..Len(inputItems) : malformedElement(inputItems[k])

countOf(kind, k) ==
    Cardinality({ j \in 1..Len(requests) : requests[j].kind = kind /\ requests[j].item = k })

\* C1: when a run reaches Complete the output list is as long as the input
\* list and output[k] has the title and systemName of input[k], whatever
\* lookups succeeded or failed.
C1_OutputMatchesInput ==
    Complete =>
        /\ inputIsArray
        /\ Len(outputJson) = Len(inputItems)
        /\ \A k \in 1..Len(inputItems) :
              /\ outputJson[k].title = inputItems[k].title
              /\ outputJson[k].systemName = inputItems[k].systemName

\* a completed run over two different items, the first lookup failed, the
\* second found a cover
C1_Witness ==
    /\ Complete
    /\ Len(outputJson) = 2
    /\ inputItems[1].title # inputItems[2].title
    /\ lookups[1].failed
    /\ hasCover(outputJson[2])

\* C2: a failed lookup of item k does not abort the batch: the run goes on to
\* look up every later item (issuing its request), and output[k] is present
\* without an imageUrl.
C2_FailureIsPerItem ==
    /\ \A k \in 1..Len(lookups) :
          lookups[k].failed =>
              /\ lookups[k].item = k
              /\ k <= Len(gamesWithCovers)
              /\ ~hasCover(gamesWithCovers[k])
              /\ ~Aborted
    /\ Complete =>
          /\ outputJson = gamesWithCovers
          /\ Len(lookups) = Len(games)
          /\ \A j \in 1..Len(games) :
                lookupStart(activeApi, games[j], tgdbApiKey, igdbClientId, igdbClientSecret).request # "none"
                    => \E n \in 1..Len(requests) : requests[n].item = j

\* with IGDB, the token exchange of item 1 failed (no search was sent for
\* it), and item 2 was looked up and got its cover
C2_Witness ==
    /\ activeApi = "igdb"
    /\ Complete
    /\ Len(outputJson) = 2
    /\ lookups[1].failed
    /\ countOf("token", 1) = 1 /\ countOf("search", 1) = 0
    /\ countOf("search", 2) = 1
    /\ hasCover(outputJson[2])

credentialToasts == {"API Key Required", "API Credentials Required"}

\* C3: with TheGamesDB and no key, or IGDB and the client ID or the client
\* secret missing, a run aborts with no request issued; with RAWG a missing
\* key never aborts a run.
C3_MissingCredentials ==
    /\ ((activeApi = "thegamesdb" /\ tgdbApiKey = <<>>)
        \/ (activeApi = "igdb" /\ (igdbClientId = <<>> \/ igdbClientSecret = <<>>)))
          => /\ requests = <<>> /\ pending = <<>> /\ pc = "idle"
             /\ toast.title \in credentialToasts \cup {"none"}
             /\ toast.title # "none" => Aborted /\ outputJson = outputAtStart
    /\ activeApi = "rawg" =>
          /\ toast.title \notin credentialToasts
          /\ ~inputInvalid => ~Aborted

\* IGDB with the client ID set and the secret missing, a non-empty valid
\* input: the run was refused
C3_Witness ==
    /\ activeApi = "igdb" /\ igdbClientId # <<>> /\ igdbClientSecret = <<>>
    /\ ~inputInvalid /\ Len(inputItems) > 0
    /\ toast.title = "API Credentials Required"
    /\ Aborted

\* C4: when the input text is not JSON, not a list, or has an element at any
\* position without a title or a systemName, the run fails as a whole and no
\* request is issued for any element.
C4_InvalidInputNoRequests ==
    inputInvalid =>
        /\ requests = <<>> /\ pending = <<>> /\ lookups = <<>> /\ pc = "idle"
        /\ ~Complete
        /\ toast.title # "none" => Aborted

\* the malformed element is the last one, after a well-formed element, and
\* the run was refused with the validation message
C4_Witness ==
    /\ inputIsArray
    /\ Len(inputItems) = 2
    /\ ~malformedElement(inputItems[1]) /\ malformedElement(inputItems[2])
    /\ activeApi = "rawg"
    /\ Aborted
    /\ error = "Each game must have 'title' and 'systemName' properties"

\* C5: a run is Aborted only out of validation: an aborted run has issued no
\* request and leaves outputJson as it found it; a run that has issued a
\* request goes on (a step is enabled while it is suspended) and, once
\* ended, is Complete with one result per input item.
C5_AbortOnlyFromValidation ==
    /\ Aborted =>
          /\ requests = <<>> /\ lookups = <<>> /\ gamesWithCovers = <<>>
          /\ outputJson = outputAtStart
    /\ requests # <<>> =>
          /\ ~Aborted
          /\ pc # "idle" => ENABLED Next
          /\ pc = "idle" => Complete /\ Len(outputJson) = Len(games)

\* an aborted run that found an earlier result in outputJson and left it
C5_Witness ==
    /\ Aborted
    /\ toast.title = "Error"
    /\ outputJson = PreviousOutput

providers == {"rawg", "tgdb", "igdb"}

\* candidate k's display name equals the title case-insensitively
exactAt(k) == toLowerCase(probe.candidates[k].name) = toLowerCase(probe.title)

\* candidate k's platform references intersect the resolved platform-ID list
intersectsAt(k) ==
    LET c == probe.candidates[k]
    IN  /\ ~c.noPlatforms
        /\ \E m \in 1..Len(c.platforms), n \in 1..Len(probe.ids) : c.platforms[m] = probe.ids[n]

someExact == \E k \in 1..Len(probe.candidates) : exactAt(k)

\* C6: in each provider's selector, when some candidate's display name
\* equals the title case-insensitively, the first such candidate is selected,
\* whatever the platform references say.
C6_ExactMatchFirst ==
    probe.op = "select" =>
        \A f \in providers :
            (picked[f] # 0 /\ someExact) =>
                /\ exactAt(picked[f])
                /\ \A j \in 1..(picked[f] - 1) : ~exactAt(j)

\* all three selectors took the second candidate, the exact match whose
\* platform is not in the list, over a first candidate whose platform is
C6_Witness ==
    /\ probe.op = "select"
    /\ Len(probe.candidates) >= 2
    /\ picked = [rawg |-> 2, tgdb |-> 2, igdb |-> 2]
    /\ exactAt(2) /\ ~exactAt(1)
    /\ intersectsAt(1) /\ ~intersectsAt(2)

\* C7: in each provider's selector, over a non-empty list with no exact
\* match: when the platform-ID list is non-empty and some candidate's
\* platform references intersect it, the first such candidate is selected;
\* otherwise the first candidate is.
C7_PlatformThenFirst ==
    probe.op = "select" =>
        \A f \in providers :
            (picked[f] # 0 /\ ~someExact) =>
                IF Len(probe.ids) > 0 /\ \E k \in 1..Len(probe.candidates) : intersectsAt(k)
                THEN /\ intersectsAt(picked[f])
                     /\ \A j \in 1..(picked[f] - 1) : ~intersectsAt(j)
                ELSE picked[f] = 1

\* no exact match, and all three selectors took the second candidate, the
\* first one whose platform is in the list
C7_Witness ==
    /\ probe.op = "select"
    /\ ~someExact
    /\ Len(probe.candidates) >= 2
    /\ picked = [rawg |-> 2, tgdb |-> 2, igdb |-> 2]
    /\ intersectsAt(2) /\ ~intersectsAt(1)

\* the image collection the probe's response holds for the selected game
probeKey == <<"1","2">>

probeHasCollection == probe.op = "images" /\ probeKey \in DOMAIN probe.body.data

probeBoxart ==
    LET gi == probe.body.data[probeKey]
    IN  IF "boxart" \in DOMAIN gi THEN gi.boxart ELSE <<>>

probeScreenshots ==
    LET gi == probe.body.data[probeKey]
    IN  IF "screenshots" \in DOMAIN gi THEN gi.screenshots ELSE <<>>

isFrontFile(f) ==
    \E k \in 1..Len(f) :
        k + 4 <= Len(f) /\ <<f[k], f[k+1], f[k+2], f[k+3], f[k+4]>> = <<"f","r","o","n","t">>

\* C8: with TheGamesDB, after a successful images response, the cover comes
\* from the game's image collection: a box-art entry whose filename contains
\* "front", else the first box-art entry, else the first screenshot, else
\* no cover.
C8_ImageFallbackOrder ==
    (probe.op = "images" /\ picked.applied /\ probeHasCollection) =>
        /\ ~picked.failed
        /\ IF \E k \in 1..Len(probeBoxart) : isFrontFile(probeBoxart[k].filename)
           THEN \E k \in 1..Len(probeBoxart) :
                   /\ isFrontFile(probeBoxart[k].filename)
                   /\ picked.url = probe.body.base_url \o <<"/boxart/front/">>
                                   \o probeBoxart[k].filename
           ELSE IF Len(probeBoxart) > 0
           THEN picked.url = probe.body.base_url \o <<"/boxart/front/">>
                             \o probeBoxart[1].filename
           ELSE IF Len(probeScreenshots) > 0
           THEN picked.url = probe.body.base_url \o <<"/screenshots/">>
                             \o probeScreenshots[1].filename
           ELSE picked.url = <<>>

\* a collection exposing only screenshots, two of them: the first is the cover
C8_Witness ==
    /\ probeHasCollection
    /\ picked.applied
    /\ DOMAIN probe.body.data[probeKey] = {"screenshots"}
    /\ Len(probeScreenshots) = 2
    /\ probeScreenshots[1] # probeScreenshots[2]
    /\ picked.url = probe.body.base_url \o <<"/screenshots/">> \o probeScreenshots[1].filename

tokenExchanges == Cardinality({ n \in 1..Len(requests) : requests[n].kind = "token" })

\* C9 as stated, on the runs in which every lookup went through: with IGDB,
\* a completed run over one or more items has performed the token exchange
\* exactly once, whatever the number of items.  (A run over an empty input
\* performs none.)
C9_TokenOncePerRun ==
    (/\ activeApi = "igdb" /\ Complete /\ Len(games) >= 1
     /\ \A k \in 1..Len(lookups) : ~lookups[k].failed)
        => tokenExchanges = 1

\* C9 amended: with IGDB, the token exchange is performed once per item: by
\* the end of a run over n items n exchanges were made, one for each item,
\* each before that item's search.
C9_TokenOncePerItem ==
    activeApi = "igdb" =>
        /\ \A n \in 1..Len(requests) :
              requests[n].kind = "search" =>
                  \E m \in 1..(n - 1) :
                      requests[m].kind = "token" /\ requests[m].item = requests[n].item
        /\ \A k \in 1..Len(games) : countOf("token", k) <= 1
        /\ Complete =>
              /\ tokenExchanges = Len(games)
              /\ \A k \in 1..Len(games) : countOf("token", k) = 1

\* a completed IGDB run over two items with two token exchanges
C9_Witness ==
    /\ activeApi = "igdb"
    /\ Complete
    /\ Len(games) = 2
    /\ tokenExchanges = 2
    /\ countOf("search", 1) = 1 /\ countOf("search", 2) = 1

\* C10: at most one request pipeline is in flight: at most one request is
\* pending, the requests of item k go out only when the results of items
\* 1..k-1 have been appended, items are handled in input order, and while a
\* run is in progress processGames cannot be started again.
C10_OnePipeline ==
    /\ Len(pending) <= 1
    /\ \A n \in 1..Len(requests) : requests[n].appended = requests[n].item - 1
    /\ \A n, m \in 1..Len(requests) : n < m => requests[n].item <= requests[m].item
    /\ \A k \in 1..Len(lookups) : lookups[k].item = k
    /\ pending # <<>> => pending[1].item = Len(gamesWithCovers) + 1
    /\ pc # "idle" => isProcessing /\ ~ENABLED processGames

\* the images request of item 2 is the one request in flight, item 1 appended
C10_Witness ==
    /\ pc = "images"
    /\ Len(pending) = 1
    /\ pending[1] = [kind |-> "images", item |-> 2]
    /\ Len(gamesWithCovers) = 1

Letters == { LowerCaseLetters[k] : k \in DOMAIN LowerCaseLetters }
           \cup { UpperCaseLetters[k] : k \in DOMAIN UpperCaseLetters }

\* u is an absolute URL: a scheme of letters, "://", and an authority that
\* starts right after it
isAbsoluteUrl(u) ==
    \E n \in 2..Len(u) :
        /\ \A k \in 1..(n - 1) : u[k] \in Letters
        /\ n + 3 <= Len(u)
        /\ <<u[n], u[n + 1], u[n + 2]>> = <<":", "/", "/">>
        /\ u[n + 3] \notin {"/", " ", ""}

imageUrlAbsent(g) == "imageUrl" \notin DOMAIN g \/ g.imageUrl = Undefined

\* C11: after a completed run the imageUrl of every output item is absent or
\* an absolute URL, whatever strings the responses of the provider carried.
C11_ImageUrlAbsolute ==
    Complete =>
        \A k \in 1..Len(outputJson) :
            imageUrlAbsent(outputJson[k]) \/ isAbsoluteUrl(outputJson[k].imageUrl)

\* the selected provider's required credentials are missing
credentialsMissing ==
    \/ activeApi = "thegamesdb" /\ tgdbApiKey = <<>>
    \/ activeApi = "igdb" /\ (igdbClientId = <<>> \/ igdbClientSecret = <<>>)

inputIsEmptyArray == inputIsArray /\ Len(inputItems) = 0

\* C12 as stated: for an empty input array, whatever the provider and its
\* credentials, a run issues no request and completes with an empty output
\* array.
C12_EmptyInputCompletes ==
    (inputIsEmptyArray /\ toast.title # "none") =>
        /\ requests = <<>> /\ pending = <<>>
        /\ Complete
        /\ outputJson = <<>>

\* C12 amended: for an empty input array no request is ever issued (no token
\* exchange either); the run ends at once, and when the selected provider's
\* required credentials are present it completes with an empty output array
\* (otherwise it is refused for the missing credentials).
C12_EmptyInputNoCalls ==
    inputIsEmptyArray =>
        /\ requests = <<>> /\ pending = <<>> /\ lookups = <<>> /\ delays = <<>>
        /\ pc = "idle" /\ ~isProcessing
        /\ toast.title # "none" =>
              IF credentialsMissing
              THEN Aborted /\ toast.title \in credentialToasts
              ELSE /\ Complete
                   /\ outputJson = <<>>
                   /\ toast.found = 0 /\ toast.of = 0

\* IGDB with both credentials and an empty array: the run completed without a
\* request and replaced the earlier result list by the empty one
C12_Witness ==
    /\ activeApi = "igdb" /\ ~credentialsMissing
    /\ inputIsEmptyArray
    /\ Complete
    /\ outputAtStart = PreviousOutput
    /\ outputJson = <<>>
    /\ requests = <<>>

sameIgnoringCase(a, b) ==
    /\ Len(a) = Len(b)
    /\ \A k \in 1..Len(a) :
          \/ a[k] = b[k]
          \/ \E n \in DOMAIN LowerCaseLetters : {a[k], b[k]} = {LowerCaseLetters[n], UpperCaseLetters[n]}

\* C13: for each of the three tables the platform identifiers obtained for a
\* name depend only on its lower-cased form: two names that differ only in
\* letter case get identical lists (the same name, the same list), and
\* "Nintendo GameCube" in any spelling gets the table's GameCube entry.
C13_CaseInsensitiveLookup ==
    (probe.op = "platform" /\ picked.applied) =>
        \A f \in providers :
            /\ sameIgnoringCase(probe.name, probe.other) => picked[f][1] = picked[f][2]
            /\ sameIgnoringCase(probe.name, K_nintendo_gamecube) =>
                  picked[f][1].ids = (CASE f = "rawg" -> <<11>>
                                        [] f = "tgdb" -> <<2>>
                                        [] f = "igdb" -> <<21>>)

\* "Nintendo GameCube" and "nintendo gamecube": one list, the GameCube entry
C13_Witness ==
    /\ probe.op = "platform" /\ picked.applied
    /\ probe.name = SysGameCube /\ probe.other = K_nintendo_gamecube
    /\ picked.rawg[1] = picked.rawg[2]
    /\ picked.rawg[1].ids = <<11>>
    /\ picked.igdb[2].ids = <<21>>

\* the entries of the selected provider's table
tableKeys ==
    CASE activeApi = "rawg" -> DOMAIN PLATFORM_MAPPING
      [] activeApi = "thegamesdb" -> DOMAIN TGDB_PLATFORM_MAPPING
      [] activeApi = "igdb" -> DOMAIN IGDB_PLATFORM_MAPPING

\* the lower-cased platform name of item k is no entry of the table
unrecognized(k) ==
    \A key \in tableKeys : ~(/\ Len(key) = Len(games[k].systemName)
                              /\ sameIgnoringCase(key, games[k].systemName))

\* C14: the lookup of an item whose lower-cased platform name is no entry of
\* the selected provider's table still issues its search and no error comes
\* from the name: with RAWG and TheGamesDB (where the search is the first
\* request) every finished lookup of such an item has sent one search; with
\* IGDB a lookup of such an item that sent no search failed at the token
\* exchange, so that a token request went out for it.
C14_UnknownPlatformStillSearched ==
    \A k \in 1..Len(lookups) :
        unrecognized(k) =>
            /\ activeApi \in {"rawg", "thegamesdb"} =>
                  countOf("search", k) = 1
            /\ activeApi = "igdb" =>
                  countOf("token", k) = 1

\* C15: in a run over n >= 1 items the inter-item delay is awaited after each
\* item except the last: the k-th delay starts when item k has just been
\* appended and ends before the first request of item k + 1, a completed run
\* has awaited exactly n - 1 delays, none after the last item; each delay is
\* 250 ms with IGDB and 1000 ms with RAWG and TheGamesDB.
C15_DelayBetweenItems ==
    /\ \A d \in 1..Len(delays) :
          /\ delays[d].after = d
          /\ d < Len(games)
          /\ d <= Len(gamesWithCovers)
          /\ delays[d].ms = (IF activeApi = "igdb" THEN 250 ELSE 1000)
    /\ pc = "delay" =>
          /\ Len(delays) = Len(gamesWithCovers)
          /\ \A n \in 1..Len(requests) : requests[n].item <= Len(delays)
    /\ \A n \in 1..Len(requests) :
          /\ requests[n].item - 1 <= Len(delays)
          /\ requests[n].appended = requests[n].item - 1
    /\ pc \notin {"idle", "delay"} => Len(delays) = Len(gamesWithCovers)
    /\ (Complete /\ Len(games) >= 1) => Len(delays) = Len(games) - 1

\* a completed IGDB run over two items: one delay of 250 ms, after item 1,
\* and the requests of item 2 were sent with item 1 appended
C15_Witness ==
    /\ activeApi = "igdb"
    /\ Complete
    /\ Len(games) = 2
    /\ delays = << [after |-> 1, ms |-> 250] >>
    /\ \E n \in 1..Len(requests) : requests[n].item = 2 /\ requests[n].appended = 1

requestsOf(k) == Cardinality({ n \in 1..Len(requests) : requests[n].item = k })

\* C16: in a run each network call of an item (search, TheGamesDB images,
\* IGDB token exchange) is attempted at most once for that item, also when it
\* failed: at most one request per item with RAWG, at most two with
\* TheGamesDB (search, images) and with IGDB (token, search).
C16_NoRetry ==
    /\ \A n \in 1..Len(requests) : requests[n].item \in 1..Len(games)
    /\ \A k \in 1..Len(games) :
          /\ \A kind \in {"search", "images", "token"} : countOf(kind, k) <= 1
          /\ activeApi = "rawg" =>
                requestsOf(k) <= 1 /\ countOf("images", k) = 0 /\ countOf("token", k) = 0
          /\ activeApi = "thegamesdb" =>
                requestsOf(k) <= 2 /\ countOf("token", k) = 0
          /\ activeApi = "igdb" =>
                requestsOf(k) <= 2 /\ countOf("images", k) = 0

\* a completed TheGamesDB run over one item whose images request failed:
\* the search and the images request were each sent once, and no more
C16_Witness ==
    /\ activeApi = "thegamesdb"
    /\ Complete
    /\ Len(lookups) = 1 /\ lookups[1].failed
    /\ Len(requests) = 2
    /\ requests[1].kind = "search" /\ requests[2].kind = "images"

\* the candidates TheGamesDB search responses are made of
tgdbCandidates ==
    UNION { { b.data.games[k] : k \in 1..Len(b.data.games) } :
              b \in { x \in TgdbSearchBodies : "data" \in DOMAIN x } }

hasFrontBoxart(c) == "boxart" \in DOMAIN c /\ "front" \in DOMAIN c.boxart

\* C17: the images request exists with TheGamesDB only, and goes out only
\* for a selected candidate that has a front box-art reference; when it
\* fails (network error, non-2xx status, unreadable body) the item is
\* appended without a cover, the run is not aborted, and it ends Complete
\* with every item looked up.
C17_ImagesRequest ==
    /\ activeApi # "thegamesdb" =>
          \A n \in 1..Len(requests) : requests[n].kind # "images"
    /\ \A n \in 1..Len(requests) :
          requests[n].kind = "images" =>
              \E m \in 1..(n - 1) :
                  requests[m].kind = "search" /\ requests[m].item = requests[n].item
    /\ pc = "images" =>
          \E c \in tgdbCandidates : c.id = bestMatchId /\ hasFrontBoxart(c)
    /\ \A k \in 1..Len(lookups) :
          (countOf("images", k) = 1 /\ lookups[k].failed) =>
              /\ ~hasCover(gamesWithCovers[k])
              /\ ~Aborted
              /\ pc # "idle" => ENABLED Next
              /\ pc = "idle" => Complete /\ Len(lookups) = Len(games)

\* the images request of item 1 failed; item 2 was then searched, its images
\* request answered, and it got its cover
C17_Witness ==
    /\ activeApi = "thegamesdb"
    /\ Complete
    /\ Len(games) = 2
    /\ countOf("images", 1) = 1 /\ lookups[1].failed
    /\ ~hasCover(outputJson[1])
    /\ countOf("search", 2) = 1 /\ countOf("images", 2) = 1
    /\ hasCover(outputJson[2])

\* C18: the three selectors compute the same function: for the same
\* candidate names, platform references, title and platform-ID list, any two
\* of them that were applied selected the same index (a TheGamesDB game
\* carries one platform reference, so that selector is applied to the
\* candidate lists with at most one reference per candidate).
C18_SelectorsAgree ==
    probe.op = "select" =>
        \A f, g \in providers :
            (picked[f] # 0 /\ picked[g] # 0) => picked[f] = picked[g]

\* no exact match and a non-empty platform-ID list that no candidate's
\* platforms meet, the second candidate having a platform: all three
\* selectors fell back to the first candidate
C18_Witness ==
    /\ probe.op = "select"
    /\ Len(probe.candidates) = 2
    /\ ~someExact
    /\ Len(probe.ids) > 0
    /\ Len(probe.candidates[2].platforms) = 1
    /\ ~intersectsAt(1) /\ ~intersectsAt(2)
    /\ picked = [rawg |-> 1, tgdb |-> 1, igdb |-> 1]

\* the run is over as the component shows it
finished == ~isProcessing /\ processedCount = 0 /\ totalCount = 0

\* C19: with every request answered or failed and every delay elapsing,
\* every invocation of processGames finishes with isProcessing false and
\* processedCount and totalCount both 0: whenever no run is suspended (after
\* Complete, after a validation failure, after the return on missing
\* credentials) the three are reset, and a suspended run always gets there.
C19_EveryRunFinishes ==
    /\ [](pc = "idle" => finished)
    /\ (pc # "idle") ~> (pc = "idle" /\ finished)

\* a run over two items completed, the key was then emptied, and the next
\* invocation returned on the missing key with the counters at 0
C19_Witness ==
    /\ toast.title = "API Key Required"
    /\ Len(outputJson) = 2
    /\ outputJson # PreviousOutput
    /\ pc = "idle"
    /\ finished

\* C20: in a completed run output[k] carries an imageUrl exactly when the
\* lookup of item k returned a non-empty URL, and the value is that URL; an
\* imageUrl the input item came with is not carried over when the lookup
\* found no cover.
C20_ImageUrlIsLookupResult ==
    Complete =>
        /\ Len(lookups) = Len(outputJson)
        /\ \A k \in 1..Len(outputJson) :
              /\ lookups[k].item = k
              /\ hasCover(outputJson[k]) <=> lookups[k].url # <<>>
              /\ lookups[k].url # <<>> => outputJson[k].imageUrl = lookups[k].url
              /\ lookups[k].url = <<>> => imageUrlAbsent(outputJson[k])

\* the first input item came with an imageUrl and its lookup found nothing:
\* output[1] has none; the second item got the URL its lookup returned
C20_Witness ==
    /\ Complete
    /\ Len(outputJson) = 2
    /\ "imageUrl" \in DOMAIN inputItems[1] /\ inputItems[1].imageUrl = OldUrl
    /\ lookups[1].url = <<>> /\ ~lookups[1].failed
    /\ imageUrlAbsent(outputJson[1])
    /\ lookups[2].url # <<>>
    /\ outputJson[2].imageUrl = lookups[2].url

====
